---- MODULE Spec2Model ----
(* The particle engine of src/PluribusParticlesCanvas.tsx: the React effect   *)
(* that builds the particle collections from a text mask (createMask) and the *)
(* frame callback (draw) that advances waves, resolves collisions, applies    *)
(* forces, integrates and updates activation.                                 *)
(*                                                                            *)
(* Numbers.  The source computes in IEEE doubles; the model computes in       *)
(* integers of a fixed resolution, rounding each quotient to the nearest      *)
(* integer:                                                                   *)
(*   lengths, positions, velocities   1/Scale px          (x, y, vx, dist)    *)
(*   time                             ms                   (rafTime, delta)   *)
(*   waveSpeed                        1/Scale px per ms    (0.12 -> 12)       *)
(*   mass                             1/1000               (0.6 -> 600)       *)
(*   friction                         1/10000              (0.92 -> 9200)     *)
(*   returnStrength, bounceProb       1/1000               (0.040 -> 40)      *)
(*   noiseKick, radialKick            1/100                (0.05 -> 5)        *)
(*   repulsionStrength, ambientCount  1/10                 (20.0 -> 200)      *)
(*   Math.random()                    1/100                (0 .. 99)          *)
(*   angles                           1/1000 rad                              *)
(*   zoom, tNorm                      1/1000                                  *)
(*   activation                       1/ActOne, ActOne = revealWidth in       *)
(*                                    1/Scale px, so the reveal ramp is exact *)
EXTENDS Integers, Sequences, FiniteSets, TLC

\* ---------------------------------------------------------------- numbers

Scale == 100

Abs(a) == IF a < 0 THEN -a ELSE a

Max(a, b) == IF a >= b THEN a ELSE b

Min(a, b) == IF a <= b THEN a ELSE b

\* a / b rounded to the nearest integer (halves away from zero), b > 0
RDiv(a, b) == IF a >= 0 THEN (2 * a + b) \div (2 * b) ELSE -((2 * (-a) + b) \div (2 * b))

\* Math.floor(a / b), b > 0
FloorDiv(a, b) == a \div b

clamp(v, a, b) == Max(a, Min(b, v))

RECURSIVE SqrtIter(_, _, _)
SqrtIter(n, lo, hi) ==
    IF lo >= hi THEN lo
    ELSE LET mid == (lo + hi + 1) \div 2
         IN  IF mid * mid <= n THEN SqrtIter(n, mid, hi) ELSE SqrtIter(n, lo, mid - 1)

\* Math.sqrt on a non-negative integer, rounded to the nearest integer
Sqrt(n) ==
    LET r == SqrtIter(n, 0, 46339)
    IN  IF n - r * r > r THEN r + 1 ELSE r

\* Math.hypot
Hypot(a, b) == Sqrt(a * a + b * b)

\* cos of k/16 of a full turn, k in 0..15, in 1/100
CosTable == <<100, 92, 71, 38, 0, -38, -71, -92, -100, -92, -71, -38, 0, 38, 71, 92>>

TwoPi == 6283

\* Math.cos / Math.sin of an angle in 1/1000 rad, result in 1/100, by table
Cos(a) == CosTable[(RDiv((a % TwoPi) * 16, TwoPi) % 16) + 1]

Sin(a) == Cos(a + (3 * TwoPi) \div 4)

\* Math.cos(Math.atan2(dy, dx)) and Math.sin(Math.atan2(dy, dx)), in 1/100;
\* atan2(0, 0) is 0
CosAtan2(dy, dx) == IF dx = 0 /\ dy = 0 THEN 100 ELSE RDiv(dx * 100, Max(1, Hypot(dx, dy)))

SinAtan2(dy, dx) == IF dx = 0 /\ dy = 0 THEN 0 ELSE RDiv(dy * 100, Max(1, Hypot(dx, dy)))

\* -------------------------------------------------------------- constants

GRID_SPACING == 3
TEXT_RADIUS == 110
BG_RADIUS == 100
TEXT_KEEP_PROB == 85
BACKGROUND_KEEP_PROB == 22
JITTER_AMOUNT == 50
ZOOM_START == 3000
ZOOM_END == 1000
ANIMATION_DURATION == 4800
MAIN_WAVE_MIN_RADIUS == 10
MAIN_WAVE_FADE_RADIUS == 140
CELL_SIZE == 6
COLLISION_DAMPING == 85
CollisionFloor == 10
MinAmbient == 10
RevealLead == 40
revealWidth == 140
DeadMargin == 200

\* activation 1
ActOne == revealWidth * Scale

\* ----------------------------------------------------------------- bounds

\* frames the host runs in one behaviour
MaxTicks == 4
\* handleChange / pointer events the host delivers in one behaviour
MaxEvents == 2
\* restarts (text, word scale or restart token changes) in one behaviour
MaxRestarts == 1

\* time between two frames, ms (0: two frames with one clock reading)
Deltas == {0, 300, 400}
\* time from the effect to the first frame of its loop, ms
FirstDelays == {16}
\* the clock reading when the component mounts
StartTime == 1000

\* Math.random(): the draws of one call of createMask or draw, as a cyclic
\* stream of values in 0..99
RandomStreams == { <<50>>, <<5, 93, 40, 0, 61, 99, 7>> }

\* the streams of the mask builds: these, and one whose draws are all low
MaskStreams == RandomStreams \cup { <<5>> }

\* the streams the frames draw from
FrameStreams == { <<0, 93, 40, 5, 61, 99, 17>> }

Random(rnd, k) == rnd[(k % Len(rnd)) + 1]

\* randRange(min, max) with the draw r, min and max in the unit of the result
randRange(min, max, r) == min + RDiv(r * (max - min), 100)

\* ------------------------------------------------------------------ state

VARIABLES
    \* React state and refs of the component
    config,            \* configRef.current
    mouse,             \* mouseRef.current
    text, wordScale, restartToken,
    \* the host
    win,               \* window.innerWidth, window.innerHeight
    now,               \* the clock requestAnimationFrame reads
    frames,            \* callbacks requestAnimationFrame holds: [id, run]
    nextId,            \* the next id requestAnimationFrame returns
    \* the closure of the effect's latest run
    run,               \* which run of the effect the closure belongs to
    hasCleanup,        \* the run returned its cleanup function
    width, height,
    particles, ambientParticles, waves, waveOrigin,
    lastRafTime, accumulatedTime, timeSinceLastWave,
    rafId,             \* 0 is null
    \* history
    ticks,             \* frames run so far
    events,            \* host events delivered so far
    last,              \* what the latest frame did
    wall,              \* the host's clock readings of the run's frames
    twin               \* the latest frame run again with other pointer coordinates

vars == << config, mouse, text, wordScale, restartToken, win, now, frames, nextId,
           run, hasCleanup, width, height, particles, ambientParticles, waves,
           waveOrigin, lastRafTime, accumulatedTime, timeSinceLastWave, rafId,
           ticks, events, last, wall, twin >>

hostVars == << config, mouse, text, wordScale, restartToken, win >>

engineVars == << width, height, particles, ambientParticles, waves, waveOrigin,
                 lastRafTime, accumulatedTime, timeSinceLastWave >>

\* useState<Config>
InitialConfig ==
    [ waveSpeed |-> 12, waveInterval |-> 1250, waveThickness |-> 32,
      radialKick |-> 20, noiseKick |-> 5, returnStrength |-> 40,
      bounceProb |-> 8, ambientCount |-> 0, repulsionStrength |-> 200,
      repulsionRadius |-> 4, paused |-> FALSE, skipIntro |-> TRUE ]

\* ------------------------------------------------------------- createMask

\* the stride-aligned pixels the two loops of createMask visit, row by row
RECURSIVE GridRow(_, _, _)
GridRow(x, y, w) == IF x >= w THEN << >> ELSE << <<x, y>> >> \o GridRow(x + GRID_SPACING, y, w)

RECURSIVE GridPoints(_, _, _)
GridPoints(y, w, h) == IF y >= h THEN << >> ELSE GridRow(0, y, w) \o GridPoints(y + GRID_SPACING, w, h)

\* fillText + getImageData: the pixels whose alpha is above 128.  The glyph
\* renderer is the browser's; here letter n inks the n-th grid column.
Rasterize(word, w, h) ==
    { pt \in { GridPoints(0, w, h)[i] : i \in 1..Len(GridPoints(0, w, h)) } :
        pt[1] \div GRID_SPACING < Len(word) }

SetMin(S) == CHOOSE a \in S : \A b \in S : a <= b

SetMax(S) == CHOOSE a \in S : \A b \in S : a >= b

\* bounding box of the text pixels, text centre and wave origin (1/Scale px)
MaskGeometry(word, ink, w, h) ==
    LET none == ink = {}
        minX == IF none THEN 0 ELSE SetMin({ pt[1] : pt \in ink })
        maxX == IF none THEN 0 ELSE SetMax({ pt[1] : pt \in ink })
        minY == IF none THEN 0 ELSE SetMin({ pt[2] : pt \in ink })
        maxY == IF none THEN 0 ELSE SetMax({ pt[2] : pt \in ink })
        numLetters == IF Len(word) = 0 THEN 1 ELSE Len(word)
        totalWidth == Max(1, maxX - minX)
        approxLetterWidth == RDiv(totalWidth * Scale, Max(1, numLetters))
        textCenterX == IF none THEN (w * Scale) \div 2 ELSE ((minX + maxX) * Scale) \div 2
        textCenterY == IF none THEN (h * Scale) \div 2 ELSE ((minY + maxY) * Scale) \div 2
    IN  [ textCenterX |-> textCenterX,
          textCenterY |-> textCenterY,
          waveOrigin |-> [ x |-> IF none THEN (w * Scale) \div 2
                                 ELSE minX * Scale + approxLetterWidth \div 2,
                           y |-> textCenterY ] ]

\* (variant) the target without its minimum of 10
approxAmbientTargetNoMin(ambientCount) == FloorDiv(ambientCount, 10)

\* Math.max(10, Math.floor(cfg.ambientCount)); ambientCount in 1/10
approxAmbientTarget(ambientCount) == Max(MinAmbient, FloorDiv(ambientCount, 10))

\* one pass of the body of the second pixel loop: st = [particles,
\* ambientParticles, k] with k the number of Math.random() calls so far
MaskCell(st, pt, ink, geo, target, rnd) ==
    LET isText == pt \in ink
        k == st.k
        keep == IF isText THEN ~(Random(rnd, k) > TEXT_KEEP_PROB)
                ELSE ~(Random(rnd, k) > BACKGROUND_KEEP_PROB)
        baseX == pt[1] * Scale - geo.textCenterX
        baseY == pt[2] * Scale - geo.textCenterY
        jitterX == IF isText THEN randRange(-20, 20, Random(rnd, k + 1))
                   ELSE randRange(-JITTER_AMOUNT * 3, JITTER_AMOUNT * 3, Random(rnd, k + 1))
        jitterY == IF isText THEN randRange(-20, 20, Random(rnd, k + 2))
                   ELSE randRange(-JITTER_AMOUNT * 3, JITTER_AMOUNT * 3, Random(rnd, k + 2))
        dx == pt[1] * Scale - geo.waveOrigin.x
        dy == pt[2] * Scale - geo.waveOrigin.y
        p == [ baseX |-> baseX, baseY |-> baseY,
               x |-> baseX + jitterX, y |-> baseY + jitterY,
               vx |-> 0, vy |-> 0,
               dist |-> Hypot(dx, dy),
               angle |-> [ cos |-> CosAtan2(dy, dx), sin |-> SinAtan2(dy, dx) ],
               isText |-> isText,
               activation |-> IF isText THEN 0 ELSE ActOne,
               jitterX |-> jitterX, jitterY |-> jitterY,
               phase |-> RDiv(Random(rnd, k + 3) * TwoPi, 100),
               friction |-> randRange(9200, 9700, Random(rnd, k + 4)),
               mass |-> randRange(600, 1400, Random(rnd, k + 5)),
               radius |-> TEXT_RADIUS ]
        tryPromote == ~isText /\ Len(st.ambientParticles) < target
        promote == tryPromote /\ Random(rnd, k + 6) < 10
        a == [ baseX |-> baseX, baseY |-> baseY,
               x |-> baseX + jitterX, y |-> baseY + jitterY,
               vx |-> 0, vy |-> 0,
               friction |-> randRange(9000, 9600, Random(rnd, k + 7)),
               mass |-> randRange(500, 1500, Random(rnd, k + 8)),
               radius |-> BG_RADIUS ]
    IN  IF ~keep THEN [ st EXCEPT !.k = k + 1 ]
        ELSE [ particles |-> Append(st.particles, p),
               ambientParticles |-> IF promote THEN Append(st.ambientParticles, a)
                                    ELSE st.ambientParticles,
               k |-> IF promote THEN k + 9 ELSE IF tryPromote THEN k + 7 ELSE k + 6 ]

RECURSIVE MaskCells(_, _, _, _, _, _, _)
MaskCells(st, pts, i, ink, geo, target, rnd) ==
    IF i > Len(pts) THEN st
    ELSE MaskCells(MaskCell(st, pts[i], ink, geo, target, rnd), pts, i + 1, ink, geo, target, rnd)

\* while (ambientParticles.length < approxAmbientTarget) push a dust particle
RECURSIVE SynthesizeDust(_, _, _, _, _, _)
SynthesizeDust(amb, k, target, w, h, rnd) ==
    IF ~(Len(amb) < target) THEN amb
    ELSE SynthesizeDust(
            Append(amb, [ baseX |-> randRange(-((w * Scale) \div 2), (w * Scale) \div 2, Random(rnd, k)),
                          baseY |-> randRange(-((h * Scale) \div 2), (h * Scale) \div 2, Random(rnd, k + 1)),
                          x |-> 0, y |-> 0, vx |-> 0, vy |-> 0,
                          friction |-> randRange(9000, 9600, Random(rnd, k + 2)),
                          mass |-> randRange(500, 1500, Random(rnd, k + 3)),
                          radius |-> BG_RADIUS ]),
            k + 4, target, w, h, rnd)

\* createMask(word) on the empty collections of a fresh closure; a zero
\* width or height returns before anything is built
createMask(word, w, h, ambientCount, rnd) ==
    IF w = 0 \/ h = 0
    THEN [ particles |-> << >>, ambientParticles |-> << >>, waveOrigin |-> [ x |-> 0, y |-> 0 ] ]
    ELSE LET ink == Rasterize(word, w, h)
             geo == MaskGeometry(word, ink, w, h)
             target == approxAmbientTarget(ambientCount)
             st == MaskCells([ particles |-> << >>, ambientParticles |-> << >>, k |-> 0 ],
                             GridPoints(0, w, h), 1, ink, geo, target, rnd)
         IN  [ particles |-> st.particles,
               ambientParticles |-> SynthesizeDust(st.ambientParticles, st.k, target, w, h, rnd),
               waveOrigin |-> geo.waveOrigin ]

\* ---------------------------------------------------------- draw: waves

\* lastRafTime === 0 ? 0 : rafTime - lastRafTime
FrameDelta(rafTime, lastRaf) == IF lastRaf = 0 THEN 0 ELSE rafTime - lastRaf

\* (variant) lastRafTime moves only on unpaused frames
NewLastRafTimeUnpausedOnly(rafTime, lastRaf, paused) == IF paused THEN lastRaf ELSE rafTime

\* lastRafTime = rafTime, on every frame
NewLastRafTime(rafTime, lastRaf, paused) == rafTime

\* (variant) only the oldest wave advances
AdvanceHeadOnly(ws, delta, waveSpeed) ==
    [ i \in 1..Len(ws) |-> [ radius |-> ws[i].radius + (IF i = 1 THEN delta * waveSpeed ELSE 0) ] ]

\* for (const w of waves) w.radius += delta * waveSpeed
AdvanceWaves(ws, delta, waveSpeed) ==
    [ i \in 1..Len(ws) |-> [ radius |-> ws[i].radius + delta * waveSpeed ] ]

\* (variant) the removal bound without the 200 px
MaxDistNoMargin(w, h) == Hypot(w * Scale, h * Scale)

\* Math.hypot(width, height) + 200
MaxDist(w, h) == Hypot(w * Scale, h * Scale) + DeadMargin * Scale

\* (variant) an if in place of the while: at most one wave is dropped
RemoveDeadOnce(ws, maxDist) ==
    IF Len(ws) > 0 /\ ws[1].radius > maxDist THEN Tail(ws) ELSE ws

\* while (waves.length > 0 && waves[0].radius > maxDist) waves.shift()
RECURSIVE RemoveDeadWaves(_, _)
RemoveDeadWaves(ws, maxDist) ==
    IF Len(ws) > 0 /\ ws[1].radius > maxDist THEN RemoveDeadWaves(Tail(ws), maxDist) ELSE ws

\* (variant) the interval branch forgets to reset the counter
SpawnWavesNoReset(ws, tsw, delta, waveInterval) ==
    LET t == tsw + delta
    IN  IF Len(ws) = 0 /\ t >= delta
        THEN [ waves |-> Append(ws, [ radius |-> 0 ]), timeSinceLastWave |-> 0 ]
        ELSE IF t > waveInterval
        THEN [ waves |-> Append(ws, [ radius |-> 0 ]), timeSinceLastWave |-> t ]
        ELSE [ waves |-> ws, timeSinceLastWave |-> t ]

\* (variant) the bootstrap guard is strict: timeSinceLastWave > delta
SpawnWavesStrictGuard(ws, tsw, delta, waveInterval) ==
    LET t == tsw + delta
    IN  IF Len(ws) = 0 /\ t > delta
        THEN [ waves |-> Append(ws, [ radius |-> 0 ]), timeSinceLastWave |-> 0 ]
        ELSE IF t > waveInterval
        THEN [ waves |-> Append(ws, [ radius |-> 0 ]), timeSinceLastWave |-> 0 ]
        ELSE [ waves |-> ws, timeSinceLastWave |-> t ]

\* timeSinceLastWave += delta, then the two spawn branches
SpawnWaves(ws, tsw, delta, waveInterval) ==
    LET t == tsw + delta
    IN  IF Len(ws) = 0 /\ t >= delta
        THEN [ waves |-> Append(ws, [ radius |-> 0 ]), timeSinceLastWave |-> 0 ]
        ELSE IF t > waveInterval
        THEN [ waves |-> Append(ws, [ radius |-> 0 ]), timeSinceLastWave |-> 0 ]
        ELSE [ waves |-> ws, timeSinceLastWave |-> t ]

\* the block under if (!cfg.paused): advance, remove, spawn
WaveStep(ws, tsw, delta, cfg, w, h) ==
    IF cfg.paused
    THEN [ waves |-> ws, timeSinceLastWave |-> tsw, kept |-> Len(ws), advanced |-> ws ]
    ELSE LET advanced == AdvanceWaves(ws, delta, cfg.waveSpeed)
             kept == RemoveDeadWaves(advanced, MaxDist(w, h))
             sp == SpawnWaves(kept, tsw, delta, cfg.waveInterval)
         IN  [ waves |-> sp.waves, timeSinceLastWave |-> sp.timeSinceLastWave,
               kept |-> Len(kept), advanced |-> advanced ]

\* if (!cfg.paused) accumulatedTime += delta
Accumulate(acc, delta, paused) == IF ~paused THEN acc + delta ELSE acc

\* zoom: 1 when the intro is skipped, else eased from ZOOM_START to ZOOM_END
easeOutCubic(t) ==
    LET u == 1000 - t
    IN  1000 - RDiv(u * u * u, 1000 * 1000)

Zoom(time, skipIntro) ==
    IF skipIntro THEN 1000
    ELSE LET tNorm == clamp(RDiv(time * 1000, ANIMATION_DURATION), 0, 1000)
         IN  ZOOM_START + RDiv((ZOOM_END - ZOOM_START) * easeOutCubic(tNorm), 1000)

\* revealRadius: firstWave.radius - 40, or 0 without a first wave
RevealRadius(ws) == IF Len(ws) > 0 THEN ws[1].radius - RevealLead * Scale ELSE 0

\* ----------------------------------------------------- draw: activation

\* (variant) the ramp value is assigned without Math.max
RevealNoMax(activation, d, skipIntro, ws) ==
    IF skipIntro THEN ActOne
    ELSE IF activation < ActOne /\ Len(ws) > 0
    THEN LET bandIn == RevealRadius(ws)
             bandOut == bandIn + revealWidth * Scale
         IN  IF d < bandIn THEN ActOne
             ELSE IF d < bandOut
             THEN ActOne - (d - bandIn)
             ELSE activation
    ELSE activation

\* the activation update of one text particle
Reveal(activation, d, skipIntro, ws) ==
    IF skipIntro THEN ActOne
    ELSE IF activation < ActOne /\ Len(ws) > 0
    THEN LET bandIn == RevealRadius(ws)
             bandOut == bandIn + revealWidth * Scale
         IN  IF d < bandIn THEN ActOne
             ELSE IF d < bandOut
             THEN Max(activation, ActOne - (d - bandIn))
             ELSE activation
    ELSE activation

\* ----------------------------------------------------- draw: collisions

\* `${Math.floor(p.x / CELL_SIZE)},${Math.floor(p.y / CELL_SIZE)}`
CellOf(p) == << FloorDiv(p.x, CELL_SIZE * Scale), FloorDiv(p.y, CELL_SIZE * Scale) >>

\* (variant) each particle's share of the correction is its own mass ratio
ResolvePairOwnMass(all, i, j) ==
    LET p1 == all[i]
        p2 == all[j]
        dx == p2.x - p1.x
        dy == p2.y - p1.y
        distSq == dx * dx + dy * dy
        minDist == p1.radius + p2.radius
    IN  IF i = j \/ ~(distSq < minDist * minDist /\ distSq > CollisionFloor) THEN all
        ELSE LET dist == Sqrt(distSq)
                 overlap == minDist - dist
                 totalMass == p1.mass + p2.mass
                 s1x == RDiv(dx * overlap * p1.mass, dist * totalMass)
                 s1y == RDiv(dy * overlap * p1.mass, dist * totalMass)
                 s2x == RDiv(dx * overlap * p2.mass, dist * totalMass)
                 s2y == RDiv(dy * overlap * p2.mass, dist * totalMass)
                 v1n == RDiv(p1.vx * dx + p1.vy * dy, dist)
                 v2n == RDiv(p2.vx * dx + p2.vy * dy, dist)
                 m1 == p1.mass
                 m2 == p2.mass
                 v1nFinal == RDiv(v1n * (m1 - m2) + 2 * m2 * v2n, totalMass)
                 v2nFinal == RDiv(v2n * (m2 - m1) + 2 * m1 * v1n, totalMass)
                 dv1n == v1nFinal - v1n
                 dv2n == v2nFinal - v2n
                 q1 == [ p1 EXCEPT !.x = @ - s1x, !.y = @ - s1y ]
                 q2 == [ p2 EXCEPT !.x = @ + s2x, !.y = @ + s2y ]
             IN  IF v1n < v2n
                 THEN [ all EXCEPT ![i] = q1, ![j] = q2 ]
                 ELSE [ all EXCEPT
                          ![i] = [ q1 EXCEPT !.vx = @ + RDiv(dv1n * dx * COLLISION_DAMPING, dist * 100),
                                             !.vy = @ + RDiv(dv1n * dy * COLLISION_DAMPING, dist * 100) ],
                          ![j] = [ q2 EXCEPT !.vx = @ + RDiv(dv2n * dx * COLLISION_DAMPING, dist * 100),
                                             !.vy = @ + RDiv(dv2n * dy * COLLISION_DAMPING, dist * 100) ] ]

\* the body of the innermost loop for the pair p1 = all[i], p2 = all[j]:
\* positional correction, then the velocity exchange unless separating
ResolvePair(all, i, j) ==
    LET p1 == all[i]
        p2 == all[j]
        dx == p2.x - p1.x
        dy == p2.y - p1.y
        distSq == dx * dx + dy * dy
        minDist == p1.radius + p2.radius
    IN  IF i = j \/ ~(distSq < minDist * minDist /\ distSq > CollisionFloor) THEN all
        ELSE LET dist == Sqrt(distSq)
                 overlap == minDist - dist
                 totalMass == p1.mass + p2.mass
                 \* separationX * 2 * m1Ratio = nx * overlap * m2 / totalMass
                 s1x == RDiv(dx * overlap * p2.mass, dist * totalMass)
                 s1y == RDiv(dy * overlap * p2.mass, dist * totalMass)
                 s2x == RDiv(dx * overlap * p1.mass, dist * totalMass)
                 s2y == RDiv(dy * overlap * p1.mass, dist * totalMass)
                 v1n == RDiv(p1.vx * dx + p1.vy * dy, dist)
                 v2n == RDiv(p2.vx * dx + p2.vy * dy, dist)
                 m1 == p1.mass
                 m2 == p2.mass
                 v1nFinal == RDiv(v1n * (m1 - m2) + 2 * m2 * v2n, totalMass)
                 v2nFinal == RDiv(v2n * (m2 - m1) + 2 * m1 * v1n, totalMass)
                 dv1n == v1nFinal - v1n
                 dv2n == v2nFinal - v2n
                 q1 == [ p1 EXCEPT !.x = @ - s1x, !.y = @ - s1y ]
                 q2 == [ p2 EXCEPT !.x = @ + s2x, !.y = @ + s2y ]
             IN  IF v1n < v2n
                 THEN [ all EXCEPT ![i] = q1, ![j] = q2 ]
                 ELSE [ all EXCEPT
                          ![i] = [ q1 EXCEPT !.vx = @ + RDiv(dv1n * dx * COLLISION_DAMPING, dist * 100),
                                             !.vy = @ + RDiv(dv1n * dy * COLLISION_DAMPING, dist * 100) ],
                          ![j] = [ q2 EXCEPT !.vx = @ + RDiv(dv2n * dx * COLLISION_DAMPING, dist * 100),
                                             !.vy = @ + RDiv(dv2n * dy * COLLISION_DAMPING, dist * 100) ] ]

\* for ox in -1..1, for oy in -1..1
NeighbourOffsets ==
    << <<-1, -1>>, <<-1, 0>>, <<-1, 1>>, <<0, -1>>, <<0, 0>>, <<0, 1>>, <<1, -1>>, <<1, 0>>, <<1, 1>> >>

\* the indices of the particles whose cell is key, in insertion order
RECURSIVE CellParticles(_, _, _)
CellParticles(cells, key, j) ==
    IF j > Len(cells) THEN << >>
    ELSE (IF cells[j] = key THEN << j >> ELSE << >>) \o CellParticles(cells, key, j + 1)

\* grid: Map from cell key to the particles inserted under it
PopulateGrid(all) ==
    LET cells == [ j \in 1..Len(all) |-> CellOf(all[j]) ]
    IN  [ key \in { cells[j] : j \in 1..Len(all) } |-> CellParticles(cells, key, 1) ]

\* the p2 that the three nested loops visit for a p1 in cell c, in order
RECURSIVE Neighbours(_, _, _)
Neighbours(grid, c, o) ==
    IF o > Len(NeighbourOffsets) THEN << >>
    ELSE LET key == << c[1] + NeighbourOffsets[o][1], c[2] + NeighbourOffsets[o][2] >>
         IN  (IF key \in DOMAIN grid THEN grid[key] ELSE << >>) \o Neighbours(grid, c, o + 1)

RECURSIVE ResolveAgainst(_, _, _, _)
ResolveAgainst(all, i, js, n) ==
    IF n > Len(js) THEN all ELSE ResolveAgainst(ResolvePair(all, i, js[n]), i, js, n + 1)

\* for (const p1 of allParticles): the grid holds the cells at insertion time,
\* p1's cell is read from its position when its turn comes
RECURSIVE ResolveFrom(_, _, _)
ResolveFrom(all, grid, i) ==
    IF i > Len(all) THEN all
    ELSE ResolveFrom(ResolveAgainst(all, i, Neighbours(grid, CellOf(all[i]), 1), 1), grid, i + 1)

\* populate the grid, then resolve collisions over [...particles, ...ambientParticles]
ResolveCollisions(all) == ResolveFrom(all, PopulateGrid(all), 1)

\* --------------------------------------------------------- draw: forces

\* mouseLocalX, mouseLocalY, isMouseActive
MouseSample(m, w, h, zoom) ==
    [ x |-> RDiv((m.x * Scale - (w * Scale) \div 2) * 1000, zoom),
      y |-> RDiv((m.y * Scale - (h * Scale) \div 2) * 1000, zoom),
      active |-> m.active ]

\* t * t * t * repulsionStrength * percent / 100, in 1/Scale px per frame;
\* tt is 1 - dist / repulsionRadius in 1/1000
CubicFalloff(tt, repulsionStrength, percent) ==
    RDiv(RDiv(RDiv(tt * tt, 1000) * tt, 1000) * repulsionStrength * percent, 100 * 100)

\* the acceleration the pointer gives a body at (x, y), the gate on
\* isMouseActive excluded
PointerPush(x, y, mass, pointer, cfg, percent) ==
    LET dx == x - pointer.x
        dy == y - pointer.y
        dist == Hypot(dx, dy)
    IN  IF dist < cfg.repulsionRadius * Scale
        THEN LET tt == 1000 - RDiv(dist * 1000, cfg.repulsionRadius * Scale)
                 acc == RDiv(CubicFalloff(tt, cfg.repulsionStrength, percent) * 1000, mass)
             IN  << RDiv(CosAtan2(dy, dx) * acc, 100), RDiv(SinAtan2(dy, dx) * acc, 100) >>
        ELSE << 0, 0 >>

\* Mouse Repulsion of a text or background particle
TextRepulsion(p, pointer, cfg) ==
    IF pointer.active THEN PointerPush(p.x, p.y, p.mass, pointer, cfg, 100) ELSE << 0, 0 >>

\* (variant) dust is repelled whether or not the pointer is active
DustRepulsionUngated(p, pointer, cfg) == PointerPush(p.x, p.y, p.mass, pointer, cfg, 50)

\* the repulsion of a dust particle, at half strength
DustRepulsion(p, pointer, cfg) ==
    IF pointer.active THEN PointerPush(p.x, p.y, p.mass, pointer, cfg, 50) ELSE << 0, 0 >>

\* the body of for (const w of waves) for particle p: acc = [x, y, k] holds
\* totalKickX, totalKickY and the number of Math.random() calls so far
WaveKick(p, w, cfg, time, acc, rnd) ==
    LET wRadius == w.radius
        fade == clamp(RDiv((wRadius - MAIN_WAVE_MIN_RADIUS * Scale) * 1000,
                           Max(1, MAIN_WAVE_FADE_RADIUS - MAIN_WAVE_MIN_RADIUS) * Scale), 0, 1000)
        bandWidthPx == cfg.waveThickness * Scale
        bandDist == Abs(p.dist - wRadius)
        tBand == 1000 - RDiv(bandDist * 1000, bandWidthPx)
        tBandSmooth == RDiv(RDiv(tBand * tBand, 1000) * (3000 - 2 * tBand), 1000)
        dirX == p.angle.cos
        dirY == p.angle.sin
        noiseAngle == p.phase + RDiv(time * 7, 10) + RDiv(wRadius * 2, Scale)
        nx == Cos(noiseAngle)
        ny == Sin(noiseAngle)
        mix == clamp(cfg.noiseKick, 0, 100)
        \* radialKick * fade * tBandSmooth, in 1/1000
        strength == RDiv(RDiv(cfg.radialKick * 10 * fade, 1000) * tBandSmooth, 1000)
        fx == RDiv((dirX * (100 - mix) + nx * mix) * strength, 100 * 1000)
        fy == RDiv((dirY * (100 - mix) + ny * mix) * strength, 100 * 1000)
        bounce == p.isText /\ Random(rnd, acc.k) * 20000 < cfg.bounceProb * tBand
        extra == randRange(40, 100, Random(rnd, acc.k + 1))
    IN  IF bandDist >= bandWidthPx THEN acc
        ELSE [ x |-> acc.x + fx + (IF bounce THEN RDiv(dirX * extra, 100) ELSE 0),
               y |-> acc.y + fy + (IF bounce THEN RDiv(dirY * extra, 100) ELSE 0),
               k |-> IF bounce THEN acc.k + 2 ELSE IF p.isText THEN acc.k + 1 ELSE acc.k ]

RECURSIVE WaveKicks(_, _, _, _, _, _, _)
WaveKicks(p, ws, n, cfg, time, acc, rnd) ==
    IF n > Len(ws) THEN acc
    ELSE WaveKicks(p, ws, n + 1, cfg, time, WaveKick(p, ws[n], cfg, time, acc, rnd), rnd)

\* (variant) the velocity is not multiplied by the friction
IntegrateNoFriction(p, kickX, kickY, returnStrength) ==
    LET targetX == p.baseX + p.jitterX
        targetY == p.baseY + p.jitterY
        vx1 == p.vx + kickX + RDiv((targetX - p.x) * returnStrength, p.mass)
        vy1 == p.vy + kickY + RDiv((targetY - p.y) * returnStrength, p.mass)
    IN  [ p EXCEPT !.vx = vx1, !.vy = vy1, !.x = @ + vx1, !.y = @ + vy1 ]

\* spring towards base + jitter, then friction, then the position update
Integrate(p, kickX, kickY, returnStrength) ==
    LET vx0 == p.vx + kickX
        vy0 == p.vy + kickY
        targetX == p.baseX + p.jitterX
        targetY == p.baseY + p.jitterY
        vx1 == vx0 + RDiv((targetX - p.x) * returnStrength, p.mass)
        vy1 == vy0 + RDiv((targetY - p.y) * returnStrength, p.mass)
        vx2 == RDiv(vx1 * p.friction, 10000)
        vy2 == RDiv(vy1 * p.friction, 10000)
    IN  [ p EXCEPT !.vx = vx2, !.vy = vy2, !.x = @ + vx2, !.y = @ + vy2 ]

\* the body of for (const p of particles); k counts Math.random() calls
StepParticle(p, ws, pointer, cfg, time, k, rnd) ==
    LET kick == WaveKicks(p, ws, 1, cfg, time, [ x |-> 0, y |-> 0, k |-> k ], rnd)
        rep == TextRepulsion(p, pointer, cfg)
        q == Integrate(p, kick.x + rep[1], kick.y + rep[2], cfg.returnStrength)
    IN  [ p |-> IF q.isText
                THEN [ q EXCEPT !.activation = Reveal(@, q.dist, cfg.skipIntro, ws) ]
                ELSE q,
          k |-> kick.k ]

RECURSIVE StepParticles(_, _, _, _, _, _, _, _)
StepParticles(ps, n, ws, pointer, cfg, time, k, rnd) ==
    IF n > Len(ps) THEN [ ps |-> ps, k |-> k ]
    ELSE LET r == StepParticle(ps[n], ws, pointer, cfg, time, k, rnd)
         IN  StepParticles([ ps EXCEPT ![n] = r.p ], n + 1, ws, pointer, cfg, time, r.k, rnd)

\* the body of for (const p of ambientParticles): drift, repulsion,
\* friction, position update
StepDust(p, pointer, cfg, k, rnd) ==
    LET d == [ p EXCEPT !.x = @ + RDiv(Random(rnd, k) - 50, 10),
                        !.y = @ + RDiv(Random(rnd, k + 1) - 50, 10) ]
        rep == DustRepulsion(d, pointer, cfg)
        vx == RDiv((d.vx + rep[1]) * d.friction, 10000)
        vy == RDiv((d.vy + rep[2]) * d.friction, 10000)
    IN  [ d EXCEPT !.vx = vx, !.vy = vy, !.x = @ + vx, !.y = @ + vy ]

RECURSIVE StepDusts(_, _, _, _, _, _)
StepDusts(ds, n, pointer, cfg, k, rnd) ==
    IF n > Len(ds) THEN ds
    ELSE StepDusts([ ds EXCEPT ![n] = StepDust(ds[n], pointer, cfg, k, rnd) ],
                   n + 1, pointer, cfg, k + 2, rnd)

\* ------------------------------------------------------------ draw

\* draw(rafTime) on the closure's state: everything the frame assigns
DrawFrame(m, rafTime, rnd) ==
    LET delta == FrameDelta(rafTime, lastRafTime)
        cfg == config
        time == Accumulate(accumulatedTime, delta, cfg.paused)
        wv == WaveStep(waves, timeSinceLastWave, delta, cfg, width, height)
        zoom == Zoom(time, cfg.skipIntro)
        pointer == MouseSample(m, width, height, zoom)
        all == ResolveCollisions(particles \o ambientParticles)
        ps == StepParticles(SubSeq(all, 1, Len(particles)), 1, wv.waves, pointer, cfg, time, 0, rnd)
        ds == StepDusts(SubSeq(all, Len(particles) + 1, Len(all)), 1, pointer, cfg, ps.k, rnd)
    IN  [ lastRafTime |-> NewLastRafTime(rafTime, lastRafTime, cfg.paused),
          accumulatedTime |-> time,
          waves |-> wv.waves,
          timeSinceLastWave |-> wv.timeSinceLastWave,
          particles |-> ps.ps,
          ambientParticles |-> ds,
          delta |-> delta,
          kept |-> wv.kept,
          advanced |-> wv.advanced ]

\* ------------------------------------------------------ the effect

\* window.innerWidth x window.innerHeight the host may have
WindowSizes == { <<6, 3>>, <<0, 3>> }

\* the words the text input may hold
Texts == { "PLURIBUS", "A", "" }

NoFrame == [ kind |-> "none" ]

NoTwin == [ kind |-> "none" ]

\* the history of a run that has had no frame, built with ambientCount ac
NoWall(ac) ==
    [ prevFrame |-> 0, count |-> 0, paused |-> 0, unpaused |-> 0, sinceSpawn |-> 0,
      wasPaused |-> FALSE, ambientCount |-> ac ]

\* (variant) the cleanup cancels nothing
CleanupNoCancel(queue, id, registered) == queue

\* the cleanup the previous run returned: if (rafId) cancelAnimationFrame(rafId)
Cleanup(queue, id, registered) ==
    IF registered /\ id # 0 THEN { f \in queue : f.id # id } ELSE queue

\* the closure a run of the effect leaves: fresh state, dimension guard,
\* createMask(text), rafId = requestAnimationFrame(draw)
Effect(word, size, ambientCount, queue, id, r, rnd) ==
    LET ok == ~(size[1] = 0 \/ size[2] = 0)
        built == createMask(word, size[1], size[2], ambientCount, rnd)
    IN  [ run |-> r, width |-> size[1], height |-> size[2],
          particles |-> built.particles,
          ambientParticles |-> built.ambientParticles,
          waveOrigin |-> built.waveOrigin,
          waves |-> << >>, lastRafTime |-> 0, accumulatedTime |-> 0,
          timeSinceLastWave |-> 0,
          rafId |-> IF ok THEN id ELSE 0,
          frames |-> IF ok THEN queue \cup { [ id |-> id, run |-> r ] } ELSE queue,
          nextId |-> IF ok THEN id + 1 ELSE id,
          hasCleanup |-> ok ]

\* React runs the previous cleanup, then the effect
RunEffect(word, rnd) ==
    \E e \in { Effect(word, win, config.ambientCount,
                      Cleanup(frames, rafId, hasCleanup), nextId, run + 1, rnd) } :
        /\ run' = e.run
        /\ width' = e.width
        /\ height' = e.height
        /\ particles' = e.particles
        /\ ambientParticles' = e.ambientParticles
        /\ waveOrigin' = e.waveOrigin
        /\ waves' = e.waves
        /\ lastRafTime' = e.lastRafTime
        /\ accumulatedTime' = e.accumulatedTime
        /\ timeSinceLastWave' = e.timeSinceLastWave
        /\ rafId' = e.rafId
        /\ frames' = e.frames
        /\ nextId' = e.nextId
        /\ hasCleanup' = e.hasCleanup
        /\ last' = NoFrame
        /\ wall' = NoWall(config.ambientCount)
        /\ twin' = NoTwin

\* the component mounts: useState initial values, then the effect's first run
Mount(sizes) ==
    /\ config = InitialConfig
    /\ mouse = [ x |-> 0, y |-> 0, active |-> FALSE ]
    /\ text = "PLURIBUS"
    /\ wordScale = 70
    /\ restartToken = 0
    /\ win \in sizes
    /\ now = StartTime
    /\ ticks = 0
    /\ events = 0
    /\ \E rnd \in RandomStreams :
       \E e \in { Effect(text, win, config.ambientCount, {}, 1, 1, rnd) } :
          /\ run = e.run
          /\ width = e.width
          /\ height = e.height
          /\ particles = e.particles
          /\ ambientParticles = e.ambientParticles
          /\ waveOrigin = e.waveOrigin
          /\ waves = e.waves
          /\ lastRafTime = e.lastRafTime
          /\ accumulatedTime = e.accumulatedTime
          /\ timeSinceLastWave = e.timeSinceLastWave
          /\ rafId = e.rafId
          /\ frames = e.frames
          /\ nextId = e.nextId
          /\ hasCleanup = e.hasCleanup
          /\ last = NoFrame
          /\ wall = NoWall(config.ambientCount)
          /\ twin = NoTwin

Init == Mount(WindowSizes)

\* setText(e.target.value.toUpperCase()): a dependency of the effect changes
SetText(word, rnd) ==
    /\ run <= MaxRestarts
    /\ word # text
    /\ text' = word
    /\ RunEffect(word, rnd)
    /\ UNCHANGED << config, mouse, wordScale, restartToken, win, now, ticks, events >>

\* the Restart button: setRestartToken(r => r + 1)
Restart(rnd) ==
    /\ run <= MaxRestarts
    /\ restartToken' = restartToken + 1
    /\ RunEffect(text, rnd)
    /\ UNCHANGED << config, mouse, text, wordScale, win, now, ticks, events >>

\* the window is resized; nothing listens, the next run of the effect reads it
Resize(size) ==
    /\ events < MaxEvents
    /\ size # win
    /\ win' = size
    /\ events' = events + 1
    /\ UNCHANGED << config, mouse, text, wordScale, restartToken, now, frames, nextId,
                    run, hasCleanup, rafId, ticks, last, wall, twin >>
    /\ UNCHANGED engineVars

\* ------------------------------------------------------ host events

WaveSpeeds == { 12, 60 }

WaveIntervals == { 200, 1250 }

AmbientCounts == { 0, 45, 100, 125 }

\* where the pointer enters the canvas
MousePoints == { <<3, 1>> }

\* other coordinates the pointer might have had
ElsewherePoints == { <<200, 150>> }

\* handleChange(key, val)
handleChange(key, val) ==
    /\ events < MaxEvents
    /\ config[key] # val
    /\ config' = [ config EXCEPT ![key] = val ]
    /\ events' = events + 1
    /\ UNCHANGED << mouse, text, wordScale, restartToken, win, now, frames, nextId,
                    run, hasCleanup, rafId, ticks, last, wall, twin >>
    /\ UNCHANGED engineVars

\* handleMouseMove
handleMouseMove(pt) ==
    /\ events < MaxEvents
    /\ mouse # [ x |-> pt[1], y |-> pt[2], active |-> TRUE ]
    /\ mouse' = [ x |-> pt[1], y |-> pt[2], active |-> TRUE ]
    /\ events' = events + 1
    /\ UNCHANGED << config, text, wordScale, restartToken, win, now, frames, nextId,
                    run, hasCleanup, rafId, ticks, last, wall, twin >>
    /\ UNCHANGED engineVars

\* handleMouseLeave
handleMouseLeave ==
    /\ events < MaxEvents
    /\ mouse.active
    /\ mouse' = [ mouse EXCEPT !.active = FALSE ]
    /\ events' = events + 1
    /\ UNCHANGED << config, text, wordScale, restartToken, win, now, frames, nextId,
                    run, hasCleanup, rafId, ticks, last, wall, twin >>
    /\ UNCHANGED engineVars

\* ------------------------------------------------------ the frame

\* the host runs the callback f at clock reading now + d.  A callback of the
\* closure in the variables runs draw on it; draw ends by requesting the next
\* frame.  (A callback of an earlier run would run on that run's own closure.)
Draw(f, d, rnd) ==
    /\ ticks < MaxTicks
    /\ f \in frames
    /\ now' = now + d
    /\ ticks' = ticks + 1
    /\ frames' = (frames \ { f }) \cup { [ id |-> nextId, run |-> f.run ] }
    /\ nextId' = nextId + 1
    /\ IF f.run = run
       THEN \E fr \in { DrawFrame(mouse, now + d, rnd) } :
            LET gap == IF wall.prevFrame = 0 THEN 0 ELSE now' - wall.prevFrame
                spawned == Len(fr.waves) - fr.kept
                paused == config.paused
            IN  /\ lastRafTime' = fr.lastRafTime
                /\ accumulatedTime' = fr.accumulatedTime
                /\ waves' = fr.waves
                /\ timeSinceLastWave' = fr.timeSinceLastWave
                /\ particles' = fr.particles
                /\ ambientParticles' = fr.ambientParticles
                /\ rafId' = nextId
                /\ last' = [ kind |-> "frame", paused |-> paused, active |-> mouse.active,
                             delta |-> fr.delta, gap |-> gap, afterPause |-> wall.wasPaused,
                             waveSpeed |-> config.waveSpeed,
                             waveInterval |-> config.waveInterval,
                             counter |-> timeSinceLastWave + fr.delta,
                             before |-> waves, advanced |-> fr.advanced,
                             kept |-> fr.kept, spawned |-> spawned,
                             sinceSpawn |-> IF paused THEN wall.sinceSpawn
                                            ELSE wall.sinceSpawn + gap ]
                /\ wall' = [ wall EXCEPT
                               !.prevFrame = now',
                               !.count = @ + 1,
                               !.paused = IF paused THEN @ + gap ELSE @,
                               !.unpaused = IF paused THEN @ ELSE @ + gap,
                               !.sinceSpawn = IF paused THEN @
                                              ELSE IF spawned > 0 THEN 0 ELSE @ + gap,
                               !.wasPaused = paused ]
       ELSE /\ UNCHANGED << lastRafTime, accumulatedTime, waves, timeSinceLastWave,
                            particles, ambientParticles, rafId, wall >>
            /\ last' = [ kind |-> "stale" ]
    /\ UNCHANGED << config, mouse, text, wordScale, restartToken, win, run, hasCleanup,
                    width, height, waveOrigin, events >>

\* the frames the host may run next: the first frame of a loop comes after
\* one of FirstDelays, a later one after one of Deltas
FrameTimes(f) == IF f.run = run /\ lastRafTime = 0 THEN FirstDelays ELSE Deltas

Frame ==
    \E f \in frames : \E d \in FrameTimes(f), rnd \in FrameStreams :
        Draw(f, d, rnd) /\ UNCHANGED twin

\* the frame, and beside it the same frame from the same state with the
\* pointer at other coordinates
FrameTwice ==
    \E f \in frames : \E d \in FrameTimes(f), rnd \in FrameStreams :
        /\ Draw(f, d, rnd)
        /\ \E pt \in ElsewherePoints :
              /\ << mouse.x, mouse.y >> # pt
              /\ \E fr \in { DrawFrame([ mouse EXCEPT !.x = pt[1], !.y = pt[2] ], now + d, rnd) } :
                    twin' = [ kind |-> "frame", x |-> pt[1], y |-> pt[2],
                              particles |-> fr.particles,
                              ambientParticles |-> fr.ambientParticles ]

\* ------------------------------------------------------ specifications

\* frames and configuration changes
Next ==
    \/ Frame
    \/ handleChange("paused", ~config.paused)
    \/ handleChange("skipIntro", ~config.skipIntro)
    \/ \E v \in WaveSpeeds : handleChange("waveSpeed", v)
    \/ \E v \in WaveIntervals : handleChange("waveInterval", v)

Spec == Init /\ [][Next]_vars

\* frames and pointer events, each frame run a second time with the pointer
\* elsewhere
NextPointer ==
    \/ FrameTwice
    \/ \E pt \in MousePoints : handleMouseMove(pt)
    \/ handleMouseLeave
    \/ handleChange("skipIntro", ~config.skipIntro)

SpecPointer == Init /\ [][NextPointer]_vars

\* frames and restarts
NextRestart ==
    \/ Frame
    \/ \E size \in WindowSizes : Resize(size)
    \/ \E word \in Texts, rnd \in RandomStreams : SetText(word, rnd)
    \/ \E rnd \in RandomStreams : Restart(rnd)

SpecRestart == Init /\ [][NextRestart]_vars

\* mask builds: createMask on the windows, words, ambient counts and random
\* streams of the bounds
MaskWindowSizes == { <<6, 3>>, <<36, 3>>, <<0, 3>> }

NextMask ==
    \/ \E v \in AmbientCounts : handleChange("ambientCount", v)
    \/ \E size \in MaskWindowSizes : Resize(size)
    \/ \E word \in Texts, rnd \in MaskStreams : SetText(word, rnd)
    \/ \E rnd \in MaskStreams : Restart(rnd)

SpecMask == Mount(MaskWindowSizes) /\ [][NextMask]_vars

\* ------------------------------------------------------ properties

\* a step is a frame of the running loop
IsFrame == ticks' = ticks + 1 /\ last'.kind = "frame"

TextParticles == { i \in 1..Len(particles) : particles[i].isText }

\* C1: every text particle's activation lies in [0, 1]; over any step it
\* never decreases, and once it is 1 it stays 1
ActivationMonotone ==
    /\ [](\A i \in TextParticles : particles[i].activation \in 0..ActOne)
    /\ [][ run' = run =>
             \A i \in TextParticles :
                /\ particles'[i].activation >= particles[i].activation
                /\ particles[i].activation = ActOne => particles'[i].activation = ActOne ]_vars

\* C1 (witness): the first wave was dropped on the latest frame, a younger
\* wave of smaller radius is first now, and a text particle keeps a partial
\* activation above what the new first wave's ramp gives it
ActivationKeptAfterDrop ==
    /\ last.kind = "frame"
    /\ Len(last.advanced) > last.kept
    /\ Len(waves) > 0
    /\ waves[1].radius < last.before[1].radius
    /\ ~config.skipIntro
    /\ \E i \in TextParticles :
          /\ particles[i].activation > 0
          /\ particles[i].activation < ActOne
          /\ RevealNoMax(particles[i].activation, particles[i].dist, FALSE, waves)
               < particles[i].activation

\* C2: a frame run while config.paused is true changes no simulation state:
\* waves, accumulated time, the wave counter and every text, background and
\* dust particle are after the frame as before it
PausedFrameChangesNothing ==
    [][ (IsFrame /\ config.paused) =>
          UNCHANGED << waves, accumulatedTime, timeSinceLastWave, particles,
                       ambientParticles >> ]_vars

\* C3: a frame appends at most one wave, and only when unpaused and either no
\* wave is left after the removal step or the counter, this frame's delta
\* added, exceeds waveInterval; the new wave has radius 0 and the counter is
\* reset to 0; a spawn beside live waves comes more than waveInterval ms of
\* unpaused host time after the spawn before it
SpawnRule ==
    last.kind = "frame" =>
        /\ last.spawned \in {0, 1}
        /\ last.spawned = 1 =>
              /\ ~last.paused
              /\ last.kept = 0 \/ last.counter > last.waveInterval
              /\ waves[Len(waves)].radius = 0
              /\ timeSinceLastWave = 0
              /\ last.kept > 0 => last.sinceSpawn > last.waveInterval

\* C3 (witness): a wave was spawned by the interval beside a live wave
IntervalSpawn ==
    /\ last.kind = "frame"
    /\ last.spawned = 1
    /\ last.kept > 0

\* C4: an unpaused frame that finds no wave after the removal step spawns one
\* on that frame, whatever its delta and the counter: after every unpaused
\* frame the wave list is non-empty
BootstrapSpawn ==
    (last.kind = "frame" /\ ~last.paused) =>
        /\ Len(waves) > 0
        /\ last.kept = 0 => last.spawned = 1

\* C4 (witness): an unpaused frame with a positive delta dropped every wave
\* and spawned the next one at once
RespawnAfterDrop ==
    /\ last.kind = "frame"
    /\ ~last.paused
    /\ last.delta > 0
    /\ Len(last.before) > 0
    /\ last.kept = 0
    /\ last.spawned = 1

\* C5: the wave list is ordered oldest first with non-increasing radius; no
\* live wave, at any index, has a radius above hypot(width, height) + 200; and
\* every wave a frame removed had a radius above it
WaveOrderAndRemoval ==
    /\ \A i, j \in 1..Len(waves) : i < j => waves[i].radius >= waves[j].radius
    /\ \A i \in 1..Len(waves) : waves[i].radius <= MaxDist(width, height)
    /\ last.kind = "frame" =>
          \A i \in 1..(Len(last.advanced) - last.kept) :
              last.advanced[i].radius > MaxDist(width, height)

\* C5 (witness): a frame removed the oldest wave and kept a younger one
HeadRemovedYoungerKept ==
    /\ last.kind = "frame"
    /\ Len(last.advanced) > last.kept
    /\ last.kept > 0
    /\ waves[1].radius > 0

\* C6: on every unpaused frame each live wave's radius strictly increases, by
\* exactly (frame-to-frame time difference) x waveSpeed
StrictWaveGrowth ==
    (last.kind = "frame" /\ ~last.paused) =>
        \A i \in 1..Len(last.before) :
            /\ last.advanced[i].radius > last.before[i].radius
            /\ last.advanced[i].radius = last.before[i].radius + last.gap * last.waveSpeed

\* C6 (amended): on every unpaused frame each live wave's radius grows by
\* exactly (frame-to-frame time difference) x waveSpeed, strictly when that
\* difference is positive
WaveGrowth ==
    (last.kind = "frame" /\ ~last.paused) =>
        \A i \in 1..Len(last.before) :
            /\ last.advanced[i].radius = last.before[i].radius + last.gap * last.waveSpeed
            /\ last.gap > 0 => last.advanced[i].radius > last.before[i].radius

\* C6 (witness): an unpaused frame with a positive time difference advanced
\* two live waves
TwoWavesAdvanced ==
    /\ last.kind = "frame"
    /\ ~last.paused
    /\ last.gap > 0
    /\ Len(last.before) >= 2

\* C7: a paused frame changes no wave, spawns and removes none, and advances
\* neither accumulated time nor the counter; paused host time is never
\* credited later: accumulated time is the host time of the unpaused frames,
\* the counter is the unpaused host time since the latest spawn, and an
\* unpaused frame advances the radii by its own frame-to-frame difference
PausedTimeNotCredited ==
    /\ [](/\ accumulatedTime = wall.unpaused
          /\ timeSinceLastWave = wall.sinceSpawn
          /\ (last.kind = "frame" /\ ~last.paused) =>
                \A i \in 1..Len(last.before) :
                    last.advanced[i].radius
                       = last.before[i].radius + last.gap * last.waveSpeed)
    /\ [][ (IsFrame /\ config.paused) =>
             UNCHANGED << waves, accumulatedTime, timeSinceLastWave >> ]_vars

\* C7 (witness): the first unpaused frame after a paused frame that took
\* host time, with a live wave to advance
ResumedAfterPause ==
    /\ last.kind = "frame"
    /\ ~last.paused
    /\ last.afterPause
    /\ wall.paused > 0
    /\ last.gap > 0
    /\ Len(last.before) > 0

\* C8: a frame run with the pointer inactive gives every text, background and
\* dust particle the same position, velocity and activation as the same frame
\* run from the same state with the pointer at other coordinates
InactivePointerNoInfluence ==
    (last.kind = "frame" /\ ~last.active /\ twin.kind = "frame") =>
        /\ twin.particles = particles
        /\ twin.ambientParticles = ambientParticles

\* the pointer as the next frame would sample it
PointerNow == MouseSample(mouse, width, height, Zoom(accumulatedTime, config.skipIntro))

\* C8 (witness): the pointer left the canvas at a place within the repulsion
\* radius of a dust particle, the second run has it far away, and frames ran
PointerParkedAtDust ==
    /\ last.kind = "frame"
    /\ ~last.active
    /\ twin.kind = "frame"
    /\ wall.count >= 2
    /\ << mouse.x, mouse.y >> = << 3, 1 >>
    /\ << twin.x, twin.y >> = << 200, 150 >>
    /\ \E i \in 1..Len(ambientParticles) :
          Hypot(ambientParticles[i].x - PointerNow.x, ambientParticles[i].y - PointerNow.y)
             < config.repulsionRadius * Scale

\* C9: at most one frame callback is pending, it belongs to the closure of
\* the effect's latest run and is the one rafId names; no callback of an
\* earlier run ever runs; a run of the effect that built a mask has its loop
\* scheduled; and before its first frame the run's state is fresh: no wave,
\* zero times, every particle at rest at its home, no text particle revealed
OneLoopFreshState ==
    /\ Cardinality(frames) <= 1
    /\ \A f \in frames : f.run = run /\ f.id = rafId
    /\ last.kind # "stale"
    /\ hasCleanup => frames # {}
    /\ last.kind = "none" =>
          /\ waves = << >>
          /\ lastRafTime = 0 /\ accumulatedTime = 0 /\ timeSinceLastWave = 0
          /\ \A i \in 1..Len(particles) :
                /\ particles[i].vx = 0 /\ particles[i].vy = 0
                /\ particles[i].x = particles[i].baseX + particles[i].jitterX
                /\ particles[i].y = particles[i].baseY + particles[i].jitterY
                /\ particles[i].activation = IF particles[i].isText THEN 0 ELSE ActOne
          /\ \A i \in 1..Len(ambientParticles) :
                ambientParticles[i].vx = 0 /\ ambientParticles[i].vy = 0

\* C9 (witness): the first loop ran frames, the effect ran again, and the new
\* loop has run a frame
RestartedLoopRuns ==
    /\ run = 2
    /\ last.kind = "frame"
    /\ wall.count >= 1
    /\ ticks > wall.count

\* C10: after a mask build the number of dust particles equals the configured
\* ambient count (its whole part), whatever it is, 0 and values below 10
\* included
DustCountIsConfigured ==
    hasCleanup => Len(ambientParticles) = FloorDiv(wall.ambientCount, 10)

\* C10 (amended): after a mask build the number of dust particles equals the
\* larger of 10 and the whole part of the configured ambient count
DustCountIsTarget ==
    hasCleanup =>
        Len(ambientParticles) = Max(10, FloorDiv(wall.ambientCount, 10))

\* C10 (witness): the build kept more background cells than the target and
\* promoted them until the target was met, so that no dust was synthesized
PromotionStoppedAtTarget ==
    /\ hasCleanup
    /\ Cardinality({ j \in 1..Len(particles) : ~particles[j].isText }) > Len(ambientParticles)
    /\ \A i \in 1..Len(ambientParticles) :
          \E j \in 1..Len(particles) :
              /\ ~particles[j].isText
              /\ ambientParticles[i].baseX = particles[j].baseX
              /\ ambientParticles[i].baseY = particles[j].baseY
              /\ ambientParticles[i].x = particles[j].x
              /\ ambientParticles[i].y = particles[j].y

\* the window has valid dimensions
ValidWindow == win[1] > 0 /\ win[2] > 0

\* C11: a run of the effect that finds the canvas width or height zero builds
\* no mask (no particles, no frame requested), and the engine stays
\* uninitialised only until the dimensions are valid: whenever they are, the
\* mask is built and the loop is scheduled
ZeroDimensionsSkipUntilValid ==
    /\ ~hasCleanup =>
          /\ width = 0 \/ height = 0
          /\ particles = << >> /\ ambientParticles = << >>
          /\ frames = {}
    /\ ValidWindow =>
          /\ hasCleanup
          /\ Len(ambientParticles) > 0
          /\ frames # {}

\* ------------------------------------------------------ the spring alone

\* the spring, friction and position update are linear in the lengths, so a
\* particle may be followed at a finer resolution: 1/SpringScale px
SpringScale == 100 * Scale

\* frames followed
MaxSpringTicks == 500

\* masses and frictions over the ranges createMask draws them from, the
\* returnStrength slider's lowest, default and highest value
SpringMasses == { 600, 1000, 1400 }

SpringFrictions == { 9200, 9700 }

ReturnStrengths == { 1, 40, 100 }

\* where a push left the particle, relative to base + jitter, in px
SpringOffsets == { <<3, 0>>, <<-2, 1>> }

\* radialKick 0 and bounceProb 0: a wave gives no kick and no bounce
SpringConfig(rs) ==
    [ InitialConfig EXCEPT !.radialKick = 0, !.bounceProb = 0, !.returnStrength = rs ]

\* a text particle of createMask, displaced by off and at rest
SpringParticle(m, f, off) ==
    [ baseX |-> 0, baseY |-> 0,
      x |-> off[1] * SpringScale, y |-> off[2] * SpringScale,
      vx |-> 0, vy |-> 0,
      dist |-> 0,
      angle |-> [ cos |-> 100, sin |-> 0 ],
      isText |-> TRUE,
      activation |-> 0,
      jitterX |-> 0, jitterY |-> 0,
      phase |-> 0,
      friction |-> f,
      mass |-> m,
      radius |-> TEXT_RADIUS ]

\* one particle, far from any other, a wave passing over it, the pointer
\* outside the canvas
InitSpring ==
    /\ \E rs \in ReturnStrengths : config = SpringConfig(rs)
    /\ mouse = [ x |-> 0, y |-> 0, active |-> FALSE ]
    /\ text = "PLURIBUS" /\ wordScale = 70 /\ restartToken = 0
    /\ win = <<6, 3>> /\ width = 6 /\ height = 3
    /\ now = StartTime
    /\ frames = {} /\ nextId = 1 /\ rafId = 0 /\ run = 1 /\ hasCleanup = FALSE
    /\ \E m \in SpringMasses, f \in SpringFrictions, off \in SpringOffsets :
          particles = << SpringParticle(m, f, off) >>
    /\ ambientParticles = << >>
    /\ waves = << [ radius |-> 0 ] >>
    /\ waveOrigin = [ x |-> 0, y |-> 0 ]
    /\ lastRafTime = 0 /\ accumulatedTime = 0 /\ timeSinceLastWave = 0
    /\ ticks = 0 /\ events = 0
    /\ last = NoFrame /\ wall = NoWall(0) /\ twin = NoTwin

\* the body of for (const p of particles) for the particle, once per frame
SpringTick ==
    /\ ticks < MaxSpringTicks
    /\ \E rnd \in FrameStreams :
          particles' = << StepParticle(particles[1], waves, mouse, config,
                                       accumulatedTime, 0, rnd).p >>
    /\ ticks' = ticks + 1
    /\ last' = [ kind |-> "spring", before |-> particles[1] ]
    /\ UNCHANGED << config, mouse, text, wordScale, restartToken, win, now, frames,
                    nextId, run, hasCleanup, width, height, ambientParticles, waves,
                    waveOrigin, lastRafTime, accumulatedTime, timeSinceLastWave,
                    rafId, events, wall, twin >>

SpecSpring == InitSpring /\ [][SpringTick]_vars

\* the square of the distance from p to base + jitter
HomeDistSq(p) ==
    (p.x - (p.baseX + p.jitterX)) * (p.x - (p.baseX + p.jitterX))
      + (p.y - (p.baseY + p.jitterY)) * (p.y - (p.baseY + p.jitterY))

SpeedSq(p) == p.vx * p.vx + p.vy * p.vy

\* C12: with the kicks, the bounce and the pointer disabled, the distance of
\* the particle to base + jitter never increases from one frame to the next
SpringMonotone ==
    last.kind = "spring" => HomeDistSq(particles[1]) <= HomeDistSq(last.before)

\* a quarter of a pixel; a hundredth of a pixel per frame
SettleDist == SpringScale \div 4

SettleSpeed == SpringScale \div 100

SettleTicks == MaxSpringTicks - 50

\* C12 (amended): with the kicks, the bounce and the pointer disabled, the
\* particle is within SettleDist of base + jitter, slower than SettleSpeed,
\* from frame SettleTicks on, for every mass, friction and returnStrength
SpringSettles ==
    (last.kind = "spring" /\ ticks >= SettleTicks) =>
        /\ HomeDistSq(particles[1]) <= SettleDist * SettleDist
        /\ SpeedSq(particles[1]) <= SettleSpeed * SettleSpeed

\* C12 (witness): a particle of the default returnStrength that is settled
\* has passed to the far side of its home on the way
SettledAfterOvershoot ==
    /\ last.kind = "spring"
    /\ ticks >= SettleTicks
    /\ config.returnStrength = 40
    /\ HomeDistSq(particles[1]) <= SettleDist * SettleDist
    /\ HomeDistSq(particles[1]) > HomeDistSq(last.before)

\* ------------------------------------------------------ one pair

\* masses of a text or background particle and of a dust particle
PairMasses == { 600, 1000, 1400 }

DustMasses == { 500, 1500 }

\* where the second particle is, relative to the first, in 1/Scale px: apart
\* by less than the radius sum, by exactly it, by a hair less, by next to
\* nothing
PairOffsets ==
    { <<150, 0>>, <<-100, 100>>, <<60, -80>>, <<0, -37>>, <<3, 1>>, <<2, 2>>,
      <<155, 155>>, <<219, 0>>, <<220, 0>>, <<-209, 10>> }

\* velocities of the first particle, the second at rest
PairVelocities == { <<0, 0>>, <<50, -20>>, <<-50, 0>> }

\* a particle of createMask at (x, y) with velocity v
PairParticle(m, x, y, v) ==
    [ SpringParticle(m, 9500, <<0, 0>>) EXCEPT !.x = x, !.y = y, !.vx = v[1], !.vy = v[2] ]

\* a dust particle of createMask at (x, y)
PairDust(m, x, y) ==
    [ baseX |-> 0, baseY |-> 0, x |-> x, y |-> y, vx |-> 0, vy |-> 0,
      friction |-> 9300, mass |-> m, radius |-> BG_RADIUS ]

\* two particles next to each other: both of particles, or one of particles
\* and one of ambientParticles
InitCollide ==
    /\ config = InitialConfig
    /\ mouse = [ x |-> 0, y |-> 0, active |-> FALSE ]
    /\ text = "PLURIBUS" /\ wordScale = 70 /\ restartToken = 0
    /\ win = <<6, 3>> /\ width = 6 /\ height = 3
    /\ now = StartTime
    /\ frames = {} /\ nextId = 1 /\ rafId = 0 /\ run = 1 /\ hasCleanup = FALSE
    /\ \E m1 \in PairMasses, off \in PairOffsets, v \in PairVelocities :
          \/ \E m2 \in PairMasses :
                /\ particles = << PairParticle(m1, 0, 0, v), PairParticle(m2, off[1], off[2], <<0, 0>>) >>
                /\ ambientParticles = << >>
          \/ \E m2 \in DustMasses :
                /\ particles = << PairParticle(m1, 0, 0, v) >>
                /\ ambientParticles = << PairDust(m2, off[1], off[2]) >>
    /\ waves = << >>
    /\ waveOrigin = [ x |-> 0, y |-> 0 ]
    /\ lastRafTime = 0 /\ accumulatedTime = 0 /\ timeSinceLastWave = 0
    /\ ticks = 0 /\ events = 0
    /\ last = NoFrame /\ wall = NoWall(0) /\ twin = NoTwin

\* the body of the innermost collision loop for p1 the first and p2 the
\* second of [...particles, ...ambientParticles]
CollidePair ==
    /\ ticks < MaxTicks
    /\ \E all \in { particles \o ambientParticles } :
       \E res \in { ResolvePair(all, 1, 2) } :
          /\ particles' = SubSeq(res, 1, Len(particles))
          /\ ambientParticles' = SubSeq(res, Len(particles) + 1, Len(res))
          /\ last' = [ kind |-> "pair", before |-> all ]
    /\ ticks' = ticks + 1
    /\ UNCHANGED << config, mouse, text, wordScale, restartToken, win, now, frames,
                    nextId, run, hasCleanup, width, height, waves, waveOrigin,
                    lastRafTime, accumulatedTime, timeSinceLastWave, rafId, events,
                    wall, twin >>

SpecCollide == InitCollide /\ [][CollidePair]_vars

\* the pair after the latest pass of the loop body
PairNow == particles \o ambientParticles

PairDist(all) == Hypot(all[2].x - all[1].x, all[2].y - all[1].y)

PairMinDist(all) == all[1].radius + all[2].radius

\* the latest pass found the pair colliding: distSq < minDist * minDist and
\* distSq > 0.001
PairResolved ==
    /\ last.kind = "pair"
    /\ LET dx == last.before[2].x - last.before[1].x
           dy == last.before[2].y - last.before[1].y
       IN  /\ dx * dx + dy * dy < PairMinDist(last.before) * PairMinDist(last.before)
           /\ dx * dx + dy * dy > CollisionFloor

\* how far the pass moved particle i
PairMove(i) == << PairNow[i].x - last.before[i].x, PairNow[i].y - last.before[i].y >>

\* what rounding to 1/Scale px may add to a distance: 0.02 px
CorrectionSlack == Scale \div 50

\* C13: a resolved pair overlaps less after its positional correction than
\* before: p1 is moved away from p2 and p2 away from p1 along the line that
\* joins them, p1 by overlap * m2 / (m1 + m2) and p2 by overlap * m1 / (m1 + m2),
\* so the lighter one moves further, the distance grows towards the radius
\* sum and does not pass it (distances to within the rounding of 1/Scale px)
OverlapShrinks ==
    PairResolved =>
        LET b == last.before
            dx == b[2].x - b[1].x
            dy == b[2].y - b[1].y
            d0 == PairDist(b)
            d1 == PairDist(PairNow)
            overlap == PairMinDist(b) - d0
            totalMass == b[1].mass + b[2].mass
            mv1 == PairMove(1)
            mv2 == PairMove(2)
        IN  /\ d1 >= d0
            /\ overlap > CorrectionSlack => d1 > d0
            /\ d1 <= PairMinDist(b) + CorrectionSlack
            /\ Abs(Hypot(mv1[1], mv1[2]) - RDiv(overlap * b[2].mass, totalMass)) <= 1
            /\ Abs(Hypot(mv2[1], mv2[2]) - RDiv(overlap * b[1].mass, totalMass)) <= 1
            /\ mv1[1] * dx + mv1[2] * dy <= 0
            /\ mv2[1] * dx + mv2[2] * dy >= 0
            /\ Abs(mv1[1] * dy - mv1[2] * dx) <= Abs(dx) + Abs(dy)
            /\ Abs(mv2[1] * dy - mv2[2] * dx) <= Abs(dx) + Abs(dy)
            /\ b[1].mass < b[2].mass =>
                  mv1[1] * mv1[1] + mv1[2] * mv1[2] >= mv2[1] * mv2[1] + mv2[2] * mv2[2]
            /\ b[1].mass > b[2].mass =>
                  mv1[1] * mv1[1] + mv1[2] * mv1[2] <= mv2[1] * mv2[1] + mv2[2] * mv2[2]

\* C13 (witness): a resolved pair off the axes whose first particle is the
\* lighter and was moved the further, the pair now a radius sum apart
LighterMovedFurther ==
    /\ PairResolved
    /\ last.before[1].mass < last.before[2].mass
    /\ last.before[2].x # last.before[1].x /\ last.before[2].y # last.before[1].y
    /\ PairMinDist(last.before) - PairDist(last.before) > CorrectionSlack
    /\ PairMove(1)[1] * PairMove(1)[1] + PairMove(1)[2] * PairMove(1)[2]
          > PairMove(2)[1] * PairMove(2)[1] + PairMove(2)[2] * PairMove(2)[2]
    /\ Abs(PairMinDist(last.before) - PairDist(PairNow)) <= CorrectionSlack

\* ------------------------------------------------------ the order of a frame

\* force accumulation alone for particle p: the wave kicks, the bounce, the
\* pointer repulsion and the spring added to the velocity
AccumulateForces(p, ws, pointer, cfg, time, k, rnd) ==
    LET kick == WaveKicks(p, ws, 1, cfg, time, [ x |-> 0, y |-> 0, k |-> k ], rnd)
        rep == TextRepulsion(p, pointer, cfg)
        targetX == p.baseX + p.jitterX
        targetY == p.baseY + p.jitterY
    IN  [ p |-> [ p EXCEPT
                    !.vx = @ + kick.x + rep[1]
                             + RDiv((targetX - p.x) * cfg.returnStrength, p.mass),
                    !.vy = @ + kick.y + rep[2]
                             + RDiv((targetY - p.y) * cfg.returnStrength, p.mass) ],
          k |-> kick.k ]

RECURSIVE AccumulateAll(_, _, _, _, _, _, _, _)
AccumulateAll(ps, n, ws, pointer, cfg, time, k, rnd) ==
    IF n > Len(ps) THEN ps
    ELSE LET r == AccumulateForces(ps[n], ws, pointer, cfg, time, k, rnd)
         IN  AccumulateAll([ ps EXCEPT ![n] = r.p ], n + 1, ws, pointer, cfg, time, r.k, rnd)

\* integration and activation alone: friction, position update, reveal
MoveAndReveal(p, cfg, ws) ==
    LET vx == RDiv(p.vx * p.friction, 10000)
        vy == RDiv(p.vy * p.friction, 10000)
        q == [ p EXCEPT !.vx = vx, !.vy = vy, !.x = @ + vx, !.y = @ + vy ]
    IN  IF q.isText THEN [ q EXCEPT !.activation = Reveal(@, q.dist, cfg.skipIntro, ws) ]
        ELSE q

\* the text and background particles a frame at rafTime would leave if it
\* ran wave update, force accumulation, collision resolution, integration,
\* activation, in this order
ForcesBeforeCollisions(rafTime, rnd) ==
    LET delta == FrameDelta(rafTime, lastRafTime)
        time == Accumulate(accumulatedTime, delta, config.paused)
        wv == WaveStep(waves, timeSinceLastWave, delta, config, width, height)
        pointer == MouseSample(mouse, width, height, Zoom(time, config.skipIntro))
        forced == AccumulateAll(particles, 1, wv.waves, pointer, config, time, 0, rnd)
        all == ResolveCollisions(forced \o ambientParticles)
    IN  [ i \in 1..Len(particles) |-> MoveAndReveal(all[i], config, wv.waves) ]

\* C14: a frame runs the wave update, then force accumulation, then
\* collision resolution, then integration, then the activation update: the
\* collisions are resolved on velocities that hold the frame's forces
ForcesThenCollisions ==
    [][ IsFrame => \E rnd \in FrameStreams :
                      particles' = ForcesBeforeCollisions(now', rnd) ]_vars

\* ------------------------------------------------------ the loop without end

\* the frame-to-frame time of the frames followed, in ms
RevealDeltas == { 610 }

\* Math.random() is 0.5 at every call
RevealStreams == { <<50>> }

\* draw reads accumulatedTime through the zoom, constant from
\* ANIMATION_DURATION on, and through time * 0.0007 inside a cosine and a
\* sine: two values 10 * 2 * pi / 0.007 ms apart give the same frame
NoisePeriod == 10 * TwoPi

WrapTime(t) == IF t >= ANIMATION_DURATION + NoisePeriod THEN t - NoisePeriod ELSE t

\* the width of the range of radii, from the farthest particle's distance
\* + 40 to the removal bound, in which the first wave reveals every particle
RevealWindow == DeadMargin - RevealLead

\* the component after skipIntro was switched off and setText("A"): the
\* effect has run a second time
InitReveal ==
    /\ config = [ InitialConfig EXCEPT !.skipIntro = FALSE ]
    /\ mouse = [ x |-> 0, y |-> 0, active |-> FALSE ]
    /\ text = "A"
    /\ wordScale = 70
    /\ restartToken = 0
    /\ win = <<6, 3>>
    /\ now = StartTime
    /\ ticks = 0
    /\ events = 0
    /\ \E rnd \in RevealStreams :
       \E e \in { Effect(text, win, config.ambientCount, {}, 2, 2, rnd) } :
          /\ run = e.run
          /\ width = e.width
          /\ height = e.height
          /\ particles = e.particles
          /\ ambientParticles = e.ambientParticles
          /\ waveOrigin = e.waveOrigin
          /\ waves = e.waves
          /\ lastRafTime = e.lastRafTime
          /\ accumulatedTime = e.accumulatedTime
          /\ timeSinceLastWave = e.timeSinceLastWave
          /\ rafId = e.rafId
          /\ frames = e.frames
          /\ nextId = e.nextId
          /\ hasCleanup = e.hasCleanup
          /\ last = NoFrame
          /\ wall = NoWall(config.ambientCount)
          /\ twin = NoTwin

\* the first wave is about to pass, in one frame of frame-to-frame time d,
\* from where it has not revealed text particle i to beyond the removal bound
JumpsOver(i, d) ==
    /\ ~config.paused
    /\ lastRafTime # 0
    /\ Len(waves) > 0
    /\ waves[1].radius - RevealLead * Scale <= particles[i].dist
    /\ waves[1].radius + d * config.waveSpeed > MaxDist(width, height)

\* the frame callback of the running loop, the clock and the request id kept
\* relative: draw reads rafTime through rafTime - lastRafTime alone, and the
\* id through cancelAnimationFrame alone.  last.newly counts the text
\* particles the frame brought to activation 1, last.jumps is 1 once a frame
\* has jumped its first wave over a particle, ticks is the number of frames
\* run, modulo 2
RevealFrame ==
    \E f \in frames, d \in RevealDeltas, rnd \in RevealStreams :
        /\ f.run = run
        /\ \E fr \in { DrawFrame(mouse, now + d, rnd) } :
              /\ lastRafTime' = now
              /\ accumulatedTime' = WrapTime(fr.accumulatedTime)
              /\ waves' = fr.waves
              /\ timeSinceLastWave' = fr.timeSinceLastWave
              /\ particles' = fr.particles
              /\ ambientParticles' = fr.ambientParticles
              /\ last' = [ kind |-> "frame", paused |-> config.paused,
                           skipIntro |-> config.skipIntro,
                           delta |-> fr.delta, waveSpeed |-> config.waveSpeed,
                           newly |-> Cardinality({ i \in TextParticles :
                                        /\ particles[i].activation < ActOne
                                        /\ fr.particles[i].activation = ActOne }),
                           jumps |-> IF \E i \in TextParticles : JumpsOver(i, d) THEN 1
                                     ELSE IF last.kind = "frame" THEN last.jumps ELSE 0 ]
        /\ ticks' = 1 - ticks
        /\ UNCHANGED << config, mouse, text, wordScale, restartToken, win, now, frames,
                        nextId, run, hasCleanup, width, height, waveOrigin, rafId,
                        events, wall, twin >>

\* frames without end, and changes of paused, skipIntro and waveSpeed
NextReveal ==
    \/ RevealFrame
    \/ handleChange("paused", ~config.paused)
    \/ handleChange("skipIntro", ~config.skipIntro)
    \/ \E v \in WaveSpeeds : handleChange("waveSpeed", v)

\* a frame of the running loop runs: the steps of NextReveal that change
\* ticks are the steps of RevealFrame, which is enabled where this is
FrameRuns ==
    /\ \E f \in frames : f.run = run
    /\ ticks' = 1 - ticks

\* draw ends by requesting the next frame, and the host runs it
SpecReveal == InitReveal /\ [][NextReveal]_vars /\ WF_ticks(FrameRuns)

\* every text particle is fully revealed
AllRevealed ==
    /\ TextParticles # {}
    /\ \A i \in TextParticles : particles[i].activation = ActOne

\* C15: with the intro not skipped and the simulation unpaused from some
\* frame on, every text particle reaches activation 1 in the end, whatever
\* the frame deltas and the waveSpeed
RevealLiveness ==
    <>[](~config.paused /\ ~config.skipIntro) => <>AllRevealed

\* the latest frame advanced the waves, by no more than RevealWindow px
SmallStep ==
    last.kind = "frame" =>
        /\ last.delta * last.waveSpeed > 0
        /\ last.delta * last.waveSpeed <= RevealWindow * Scale

\* C15 (amended): with the intro not skipped, the simulation unpaused and
\* every frame's delta * waveSpeed positive and at most RevealWindow px from
\* some frame on, every text particle reaches activation 1 in the end
RevealUnderSmallSteps ==
    <>[](~config.paused /\ ~config.skipIntro /\ SmallStep) => <>AllRevealed

\* C15 (witness): a frame once jumped the first wave over a text particle,
\* and a later frame of a small step, the intro not skipped, revealed it
RevealedAfterJump ==
    /\ AllRevealed
    /\ last.kind = "frame"
    /\ last.jumps = 1
    /\ ~last.skipIntro /\ ~last.paused
    /\ last.newly > 0
    /\ SmallStep

====
